---------------------------- MODULE Spec2Model ----------------------------
(***************************************************************************)
(* A model of logrotate: the rotation engine (src/rotate.rs: SizeRotate,   *)
(* DailyRotate, rotate_filename, gzip_encode, remove_log_files,            *)
(* file_glob), the line reassembly of rotate::start with utils::Lines, and *)
(* the pipeline of main.rs / pm.rs that feeds it.                          *)
(*                                                                         *)
(* File names are token sequences: <<BASE>> is the destination path,       *)
(* <<BASE, d>> is "<path>.<day d>", <<BASE, d, n>> is "<path>.<day d>-n",  *)
(* and a trailing GZ token is the ".gz" suffix.  A string prefix test on   *)
(* names of these shapes is a prefix test on the token sequences.          *)
(* Bytes are integers; file contents are sequences of bytes.               *)
(***************************************************************************)
EXTENDS Integers, Sequences, FiniteSets, TLC

VARIABLES
    cfg,        \* resolved configuration (Args): mode, compress, keep_days, size_limit, has_dir
    today,      \* the local calendar day, as day() reads it
    disk,       \* the destination directory: file name |-> content
    mtime,      \* modification day of the file at the destination path
    file,       \* Rotate.file: TRUE iff a handle is open (Some)
    cur_size,   \* SizeRotate.cur_size
    create_day, \* DailyRotate.create_day
    chan,       \* the mpsc channel's queue of chunks
    senders,    \* the live mpsc::Sender handles
    nread,      \* chunks accepted from the external source so far
    faults,     \* file operations the environment has made fail so far
    tail,       \* start's `tail`: <<>> is None, <<v>> is Some(v)
    pc,         \* position of rotate::start
    pending,    \* the slices start still has to pass to write_all for the chunk in hand
    call,       \* the write_all call in hand: get_file passes made, renames done, first check
    last,       \* what the last finished write_all call did
    ev,         \* what the last rotation pass did
    inp,        \* bytes start has received, in order
    out,        \* bytes start has passed to write_all, in order
    src,        \* source ingestion: "stdin", "child", or "feed" (an abstract producer)
    srcpc,      \* position of pm::spawn (child mode)
    ppc,        \* position of each producer: stdin_read, or handle_out for stdout / stderr
    pbuf,       \* the buffer a producer is sending
    child,      \* the child process: "none", "running", "exited"
    sig,        \* position of the interrupt listener (signal)
    subs,       \* the broadcast receivers subscribed and not yet dropped
    inbox,      \* the receivers holding an unread broadcast
    bsent,      \* who has sent the shutdown broadcast, in order
    flow        \* history of the chunks: the producer of each queued chunk, the chunks
                \* each producer has read, the chunks start has received from each,
                \* and the producers that have had a send fail

engineVars == <<cfg, today, disk, mtime, file, cur_size, create_day, faults>>
orchVars == <<tail, pc, pending, call, last, ev, inp, out>>
pipeVars == <<src, srcpc, ppc, pbuf, child, sig, subs, inbox, bsent, flow>>
vars == <<cfg, today, disk, mtime, file, cur_size, create_day, faults,
          chan, senders, nread, tail, pc, pending, call, last, ev, inp, out,
          src, srcpc, ppc, pbuf, child, sig, subs, inbox, bsent, flow>>

(***************************************************************************)
(* Bounds of the model.                                                    *)
(***************************************************************************)
MaxChunk == 2       \* longest chunk a read delivers
MaxFeed == 2        \* chunks delivered in one run
MaxDaySteps == 1    \* midnights that pass in one run
MaxPasses == 2      \* get_file passes followed within one write_all call
StartDay == 3       \* the day the run starts on; days 0..StartDay-1 are the past
SizeLimit == 2      \* the size threshold configured (file_size), in bytes
ChanCap == 1        \* capacity of the mpsc channel (64 in main), scaled down
MaxFaults == 1      \* file operations the environment makes fail in one run

(***************************************************************************)
(* Bytes and names.                                                        *)
(***************************************************************************)
NL == 10
Byte == {NL, 97}
BASE == 0
GZ == -1

path == <<BASE>>

\* str::starts_with
starts_with(s, p) == Len(p) <= Len(s) /\ SubSeq(s, 1, Len(p)) = p

\* format!("{}.gz", filename)
gz_name(filename) == filename \o <<GZ>>

\* day(): Local::now() formatted with DATE_FMT
day == today

\* date_add(days)
date_add(days) == today + days

\* is_file(path) against a directory state
is_file(d, name) == name \in DOMAIN d

(***************************************************************************)
(* Directory states.                                                       *)
(***************************************************************************)
EmptyDisk == [n \in {} |-> <<>>]

Put(d, name, data) == [n \in (DOMAIN d) \cup {name} |-> IF n = name THEN data ELSE d[n]]

Remove(d, names) == [n \in (DOMAIN d) \ names |-> d[n]]

Rename_keeps_source(d, from, to) == Put(d, to, d[from])

\* fs::rename(from, to): the target is replaced when it exists
Rename(d, from, to) == Remove(Put(d, to, d[from]), {from})


(***************************************************************************)
(* Rotate::rotate_filename: the first unused archival name of the day.     *)
(***************************************************************************)
\* the test both branches apply to a candidate name
name_unused(d, filename, compress) ==
    \/ (compress /\ ~is_file(d, gz_name(filename)))
    \/ (~compress /\ ~is_file(d, filename))

RECURSIVE numbered_filename(_, _, _, _)
numbered_filename(d, p, compress, i) ==
    LET filename == p \o <<day, i>>
    IN  IF name_unused(d, filename, compress)
        THEN filename
        ELSE numbered_filename(d, p, compress, i + 1)

rotate_filename(d, p, compress, mul) ==
    LET filename == p \o <<day>>
    IN  IF ~mul /\ name_unused(d, filename, compress)
        THEN filename
        ELSE numbered_filename(d, p, compress, 1)

(***************************************************************************)
(* gzip_encode.  The encoder is modelled as a header byte followed by a    *)
(* run-length coding of the input, so that the archive's content differs   *)
(* from the plain bytes and decoding is a computation.                     *)
(***************************************************************************)
RECURSIVE RunLen(_, _)
RunLen(s, b) == IF s # <<>> /\ Head(s) = b THEN 1 + RunLen(Tail(s), b) ELSE 0

RECURSIVE Encode(_)
Encode(s) ==
    IF s = <<>> THEN <<>>
    ELSE LET n == RunLen(s, Head(s))
         IN  <<Head(s), n>> \o Encode(SubSeq(s, n + 1, Len(s)))

RECURSIVE Repeat(_, _)
Repeat(b, n) == IF n = 0 THEN <<>> ELSE <<b>> \o Repeat(b, n - 1)

RECURSIVE Decode(_)
Decode(z) ==
    IF Len(z) < 2 THEN <<>>
    ELSE Repeat(z[1], z[2]) \o Decode(SubSeq(z, 3, Len(z)))

GzipHeader == <<31, 139>>
Gzip(s) == GzipHeader \o Encode(s)
Gunzip(z) == Decode(SubSeq(z, Len(GzipHeader) + 1, Len(z)))

\* The step of gzip_encode that fails, or "ok": "open" is File::open or
\* File::create failing (nothing is made), "copy" the encoder or the copy failing
\* (a truncated .gz is left), "remove" fs::remove_file failing.
GzOutcome == {"ok", "open", "copy", "remove"}

\* gzip_encode(filename) on directory d: the directory it leaves and whether it returned Ok
gzip_encode(d, filename, how) ==
    CASE how = "open"   -> [disk |-> d, ok |-> FALSE]
      [] how = "copy"   -> [disk |-> Put(d, gz_name(filename), <<>>), ok |-> FALSE]
      [] how = "remove" -> [disk |-> Put(d, gz_name(filename), Gzip(d[filename])), ok |-> FALSE]
      [] OTHER          -> [disk |-> Remove(Put(d, gz_name(filename), Gzip(d[filename])), {filename}),
                            ok |-> TRUE]

(***************************************************************************)
(* file_glob and remove_log_files.                                         *)
(***************************************************************************)
\* file_glob(file_path): Err when the parent directory component is empty
\* (Path::new("").exists() is false), else the entries whose name starts with
\* the file name.
file_glob(d, file_path, has_dir) ==
    IF ~has_dir
    THEN [ok |-> FALSE, files |-> {}]
    ELSE [ok |-> TRUE, files |-> {n \in DOMAIN d : starts_with(n, file_path)}]

expire_path_undated(file_path, dy) == file_path

\* the name remove_log_files globs for
expire_path(file_path, dy) == file_path \o <<dy>>

\* the entries remove_log_files(file_path, day) removes
removed_log_files(d, file_path, dy, has_dir) ==
    LET g == file_glob(d, expire_path(file_path, dy), has_dir)
    IN  IF g.ok THEN g.files ELSE {}

remove_log_files(d, file_path, dy, has_dir) ==
    Remove(d, removed_log_files(d, file_path, dy, has_dir))


(***************************************************************************)
(* utils::Lines and the reassembly of rotate::start.                       *)
(***************************************************************************)
\* position of the first NL of s at or after index i (1-based), 0 when there is none
RECURSIVE position(_, _)
position(s, i) ==
    IF i > Len(s) THEN 0
    ELSE IF s[i] = NL THEN i ELSE position(s, i + 1)

\* position of the last NL of s at or before index i, 0 when there is none
RECURSIVE rposition(_, _)
rposition(s, i) ==
    IF i < 1 THEN 0
    ELSE IF s[i] = NL THEN i ELSE rposition(s, i - 1)

\* the slices Lines::next yields from position pos (0-based) on
RECURSIVE Lines(_, _)
Lines(data, pos) ==
    IF pos >= Len(data) THEN <<>>
    ELSE LET start == pos
             nl == position(data, start + 1)
             end == IF nl # 0 THEN nl ELSE Len(data)
         IN  <<SubSeq(data, start + 1, end)>> \o Lines(data, end)

split_tail_short(chunk, index) == SubSeq(chunk, index + 2, Len(chunk))

\* data[index + 1..].to_vec(): the bytes after the last newline (index is 1-based here)
split_tail(chunk, index) == SubSeq(chunk, index + 1, Len(chunk))

\* One pass of start's loop body over a received chunk: the slices it passes to
\* write_all, in order, and the tail it leaves.
Reassemble(tl, chunk) ==
    LET last_tail == tl
        index == rposition(chunk, Len(chunk))
        split == chunk[Len(chunk)] # NL /\ index # 0
        tail1 == IF split THEN <<split_tail(chunk, index)>> ELSE <<>>
        data == IF split THEN SubSeq(chunk, 1, index) ELSE chunk
        lines == Lines(data, 0)
    IN  IF last_tail # <<>>
        THEN IF lines # <<>>
             THEN [writes |-> <<last_tail[1] \o lines[1]>> \o Tail(lines), tail |-> tail1]
             ELSE [writes |-> <<>>,
                   tail |-> IF tail1 # <<>> THEN <<last_tail[1] \o tail1[1]>> ELSE tail1]
        ELSE [writes |-> lines, tail |-> tail1]

RECURSIVE Concat(_)
Concat(ss) == IF ss = <<>> THEN <<>> ELSE Head(ss) \o Concat(Tail(ss))


(***************************************************************************)
(* The rotation engine.                                                    *)
(***************************************************************************)
\* open_file(path): append to the existing file (with its metadata) or create it
open_file(d, mt) ==
    IF is_file(d, path)
    THEN [disk |-> d, mtime |-> mt, exists |-> TRUE, len |-> Len(d[path]), modified |-> mt]
    ELSE [disk |-> Put(d, path, <<>>), mtime |-> day, exists |-> FALSE, len |-> 0, modified |-> day]

size_fits_strict(cur, len, limit) == cur + len < limit

\* a test of the size already written, whatever the write adds
size_fits_before(cur, len, limit) == cur <= limit

\* SizeRotate::get_file, the test for writing in place
size_fits(cur, len, limit) == cur + len <= limit

daily_fits_stale(cday, dy) == cday <= dy

\* DailyRotate::get_file, the test for writing in place
daily_fits(cday, dy) == cday = dy

\* The day get_file passes to remove_log_files
expire_day(keep_days) == date_add(-keep_days)

sweep_runs_renamed(renamed, gz_ok) == renamed /\ gz_ok

\* get_file reaches its retention sweep: the sweep follows the rename's if/else,
\* whichever branch ran, unless gzip_encode's error left get_file through `?`
sweep_runs(renamed, gz_ok) == gz_ok

NoEvent ==
    [done |-> FALSE, name |-> <<>>, target_existed |-> FALSE, gz_existed |-> FALSE,
     renamed |-> FALSE, gz |-> "none", live_data |-> <<>>, sweep |-> FALSE,
     swept |-> {}, left |-> {}, expire |-> 0, reopened |-> FALSE,
     plain_after |-> FALSE, gz_after |-> <<>>, day |-> 0, names_before |-> {},
     names_after |-> {}]

\* One rotation pass of get_file (from the flush of the handle to the retention
\* sweep) on directory d, given whether the rename succeeds and how gzip_encode
\* ends.  err: gzip_encode's error leaves get_file through `?`.
RotatePass(d, mul, renamed, how) ==
    LET new_filename == rotate_filename(d, path, cfg.compress, mul)
        d1 == IF renamed THEN Rename(d, path, new_filename) ELSE d
        zip == renamed /\ cfg.compress
        g  == IF zip THEN gzip_encode(d1, new_filename, how) ELSE [disk |-> d1, ok |-> TRUE]
        exp == expire_day(cfg.keep_days)
        sweep == sweep_runs(renamed, g.ok)
        swept == IF sweep THEN removed_log_files(g.disk, path, exp, cfg.has_dir) ELSE {}
        d2 == IF sweep THEN remove_log_files(g.disk, path, exp, cfg.has_dir) ELSE g.disk
    IN  [disk |-> d2,
         err |-> ~g.ok,
         renamed |-> renamed,
         fault |-> ~renamed \/ ~g.ok,
         ev |-> [done |-> TRUE,
                 name |-> new_filename,
                 target_existed |-> is_file(d, new_filename),
                 gz_existed |-> is_file(d, gz_name(new_filename)),
                 renamed |-> renamed,
                 gz |-> IF zip THEN how ELSE "none",
                 live_data |-> d[path],
                 sweep |-> sweep,
                 swept |-> swept,
                 left |-> {n \in DOMAIN d2 : starts_with(n, expire_path(path, exp))},
                 expire |-> exp,
                 reopened |-> FALSE,
                 plain_after |-> is_file(d2, new_filename),
                 gz_after |-> IF is_file(d2, gz_name(new_filename))
                              THEN <<d2[gz_name(new_filename)]>> ELSE <<>>,
                 day |-> day,
                 names_before |-> DOMAIN d,
                 names_after |-> DOMAIN d2]]

\* The passes the environment allows: the rename succeeds or fails, and
\* gzip_encode ends in one of its outcomes.
RotatePasses(d, mul) ==
    {RotatePass(d, mul, rn, how) : rn \in BOOLEAN, how \in GzOutcome}

NoCall == [rot |-> 0, renames |-> 0, before |-> 0, day |-> 0]

\* write_all returns (get_file gave a handle and the slice was written, or
\* get_file gave an error): start moves to its next slice.
Returned(ok, c) ==
    /\ pending' = Tail(pending)
    /\ last' = [len |-> Len(Head(pending)), before |-> c.before, day |-> c.day,
                day_end |-> day, rot |-> c.rot, renames |-> c.renames, ok |-> ok, n |-> 1]
    /\ call' = NoCall
    /\ pc' = IF Tail(pending) # <<>> THEN pc
             ELSE IF pc = "flush_tail" THEN "close" ELSE "recv"

\* write_all(data) under the size policy: one pass of SizeRotate::get_file.
\* The recursion is followed for MaxPasses rotation passes.  A call that still
\* does not fit then is one whose recursion never returns: with fewer failing
\* renames than passes a rename has succeeded, the file is new and empty, and
\* len > size_limit fails the test at every further level.
SizeGetFile ==
    /\ pc \in {"write", "flush_tail"}
    /\ cfg.mode = "size"
    /\ LET data == Head(pending)
           len == Len(data)
           o == IF file THEN [disk |-> disk, mtime |-> mtime, len |-> cur_size]
                ELSE open_file(disk, mtime)
           c == IF call.rot = 0 THEN [call EXCEPT !.before = o.len, !.day = day] ELSE call
       IN  /\ size_fits(o.len, len, cfg.size_limit) \/ call.rot < MaxPasses
           /\ out' = IF call.rot = 0 THEN out \o data ELSE out
           /\ IF size_fits(o.len, len, cfg.size_limit)
              THEN /\ cur_size' = o.len + len
                   /\ file' = TRUE
                   /\ disk' = Put(o.disk, path, o.disk[path] \o data)
                   /\ mtime' = day
                   /\ ev' = IF file THEN ev ELSE [ev EXCEPT !.reopened = TRUE]
                   /\ faults' = faults
                   /\ Returned(TRUE, c)
              ELSE \E r \in RotatePasses(o.disk, TRUE) :
                   /\ r.fault => faults < MaxFaults
                   /\ faults' = IF r.fault THEN faults + 1 ELSE faults
                   /\ cur_size' = o.len
                   /\ file' = FALSE
                   /\ disk' = r.disk
                   /\ mtime' = o.mtime
                   /\ ev' = r.ev
                   /\ IF r.err
                      THEN Returned(FALSE, [c EXCEPT !.rot = @ + 1, !.renames = @ + 1])
                      ELSE /\ call' = [c EXCEPT !.rot = @ + 1,
                                                !.renames = IF r.renamed THEN @ + 1 ELSE @]
                           /\ UNCHANGED <<pending, last, pc>>
    /\ UNCHANGED <<cfg, today, create_day, chan, senders, nread, tail, inp, pipeVars>>

\* write_all(data) under the daily policy: one pass of DailyRotate::get_file.
DailyGetFile ==
    /\ pc \in {"write", "flush_tail"}
    /\ cfg.mode = "daily"
    /\ LET data == Head(pending)
           o == IF file THEN [disk |-> disk, mtime |-> mtime, modified |-> create_day]
                ELSE open_file(disk, mtime)
           c == IF call.rot = 0 THEN [call EXCEPT !.before = o.modified, !.day = day] ELSE call
       IN  /\ daily_fits(o.modified, day) \/ call.rot < MaxPasses
           /\ out' = IF call.rot = 0 THEN out \o data ELSE out
           /\ IF daily_fits(o.modified, day)
              THEN /\ create_day' = o.modified
                   /\ file' = TRUE
                   /\ disk' = Put(o.disk, path, o.disk[path] \o data)
                   /\ mtime' = day
                   /\ ev' = IF file THEN ev ELSE [ev EXCEPT !.reopened = TRUE]
                   /\ faults' = faults
                   /\ Returned(TRUE, c)
              ELSE \E r \in RotatePasses(o.disk, FALSE) :
                   /\ r.fault => faults < MaxFaults
                   /\ faults' = IF r.fault THEN faults + 1 ELSE faults
                   /\ create_day' = o.modified
                   /\ file' = FALSE
                   /\ disk' = r.disk
                   /\ mtime' = o.mtime
                   /\ ev' = r.ev
                   /\ IF r.err
                      THEN Returned(FALSE, [c EXCEPT !.rot = @ + 1, !.renames = @ + 1])
                      ELSE /\ call' = [c EXCEPT !.rot = @ + 1,
                                                !.renames = IF r.renamed THEN @ + 1 ELSE @]
                           /\ UNCHANGED <<pending, last, pc>>
    /\ UNCHANGED <<cfg, today, cur_size, chan, senders, nread, tail, inp, pipeVars>>


(***************************************************************************)
(* rotate::start.                                                          *)
(***************************************************************************)
\* main's join! polls start, the source and the listener once each, in that
\* order, before any of them is polled again: start first stops in recv, and
\* goes on only after the other two have had their first poll.
SourcePolled ==
    /\ src = "stdin" => ppc["stdin"] # "init"
    /\ src = "child" => srcpc # "init"

\* a start that goes on as soon as the source has had its first poll
FirstPollDone_source_only == SourcePolled

FirstPollDone == SourcePolled /\ sig # "init"

NoLast == [len |-> 0, before |-> 0, day |-> 0, day_end |-> 0, rot |-> 0, renames |-> 0, ok |-> TRUE, n |-> 0]

\* recv() yields a chunk: the loop body up to the first write_all call.  An empty
\* chunk makes data[data.len() - 1] panic.
OrchRecv ==
    /\ pc = "recv"
    /\ FirstPollDone
    /\ chan # <<>>
    /\ LET chunk == Head(chan)
           from == Head(flow.tags)
       IN  /\ chan' = Tail(chan)
           /\ inp' = inp \o chunk
           /\ flow' = [flow EXCEPT !.tags = Tail(@),
                                   !.rcv = IF from \in DOMAIN @
                                           THEN [@ EXCEPT ![from] = Append(@, chunk)] ELSE @]
           /\ IF chunk = <<>>
              THEN /\ pc' = "panic"
                   /\ UNCHANGED <<tail, pending>>
              ELSE LET r == Reassemble(tail, chunk)
                   IN  /\ tail' = r.tail
                       /\ pending' = r.writes
                       /\ pc' = IF r.writes = <<>> THEN "recv" ELSE "write"
    /\ UNCHANGED <<engineVars, senders, nread, call, last, ev, out,
                   src, srcpc, ppc, pbuf, child, sig, subs, inbox, bsent>>

\* recv() yields None (every sender dropped, queue empty): leave the loop and
\* pass the residual tail to write_all.
OrchEnd ==
    /\ pc = "recv"
    /\ FirstPollDone
    /\ chan = <<>>
    /\ senders = {}
    /\ IF tail # <<>>
       THEN /\ pending' = <<tail[1]>>
            /\ tail' = <<>>
            /\ pc' = "flush_tail"
       ELSE /\ pc' = "close"
            /\ UNCHANGED <<pending, tail>>
    /\ UNCHANGED <<engineVars, chan, senders, nread, call, last, ev, inp, out, pipeVars>>

\* the fields of the engine (SizeRotate / DailyRotate) and the files it owns
Engine ==
    [file |-> file, cur_size |-> cur_size, create_day |-> create_day,
     disk |-> disk, mtime |-> mtime]

\* flush(): file_flush flushes the handle if there is one and logs an error.
\* A File has no buffer of its own: every write_all has reached the file
\* already, so nothing of the engine or of the directory changes.
flush(e) == e

\* a close that flushes and keeps the handle
close_keeps_handle(e) == flush(e)

\* close(): flush(), then drop(self.file.take())
close(e) == [flush(e) EXCEPT !.file = FALSE]

\* rotate.close() (flush, drop the handle), then ch.send(()): every receiver
\* subscribed now gets the broadcast; with none the send fails and is ignored.
OrchClose ==
    /\ pc = "close"
    /\ LET e == close(Engine)
       IN  /\ file' = e.file
           /\ cur_size' = e.cur_size
           /\ create_day' = e.create_day
           /\ disk' = e.disk
           /\ mtime' = e.mtime
    /\ pc' = "done"
    /\ inbox' = inbox \cup subs
    /\ bsent' = Append(bsent, "orch")
    /\ UNCHANGED <<cfg, today, faults,
                   chan, senders, nread, tail, pending, call, last, ev, inp, out,
                   src, srcpc, ppc, pbuf, child, sig, subs, flow>>

(***************************************************************************)
(* The environment of the engine.                                          *)
(***************************************************************************)
\* Midnight passes.
DayPasses ==
    /\ today < StartDay + MaxDaySteps
    /\ today' = today + 1
    /\ UNCHANGED <<cfg, disk, mtime, file, cur_size, create_day, faults,
                   chan, senders, nread, orchVars, pipeVars>>

\* A producer sends a chunk it has read (Sender::send, which waits while the
\* channel is full).
Feed(c) ==
    /\ senders # {}
    /\ Len(chan) < ChanCap
    /\ nread < MaxFeed
    /\ chan' = Append(chan, c)
    /\ flow' = [flow EXCEPT !.tags = Append(@, "src")]
    /\ nread' = nread + 1
    /\ UNCHANGED <<engineVars, senders, orchVars,
                   src, srcpc, ppc, pbuf, child, sig, subs, inbox, bsent>>

\* The source ends: the producer drops its sender.
EndOfInput ==
    /\ senders # {}
    /\ senders' = {}
    /\ UNCHANGED <<engineVars, chan, nread, orchVars, pipeVars>>

RECURSIVE SeqsUpTo(_, _)
SeqsUpTo(S, n) ==
    IF n = 0 THEN {<<>>}
    ELSE LET shorter == SeqsUpTo(S, n - 1)
         IN  shorter \cup {Append(q, b) : q \in shorter, b \in S}

\* the non-empty chunks a read can deliver
Chunks == SeqsUpTo(Byte, MaxChunk) \ {<<>>}

\* chunks that are one whole line
LineLens == {1, 2, 3}
LineChunks == {Append(Repeat(97, n - 1), NL) : n \in LineLens}

\* The engine's runs: a chunk is sent when start waits in recv on an empty channel.
FeedLine == pc = "recv" /\ chan = <<>> /\ \E c \in LineChunks : Feed(c)

FeedChunk == \E c \in Chunks : Feed(c)

(***************************************************************************)
(* Initial states.                                                         *)
(***************************************************************************)
\* the retention periods configured (keep_days)
KeepDays == {0, 1, 2}

Configs ==
    {[mode |-> "size", compress |-> z, keep_days |-> k, size_limit |-> SizeLimit, has_dir |-> h] :
        z \in BOOLEAN, k \in KeepDays, h \in BOOLEAN}
    \cup
    {[mode |-> "daily", compress |-> z, keep_days |-> k, size_limit |-> SizeLimit, has_dir |-> h] :
        z \in BOOLEAN, k \in KeepDays, h \in BOOLEAN}

\* Archives of earlier runs: for each past day a plain archive and a numbered,
\* compressed sibling, and a numbered plain archive made earlier on the start day.
HistoryDisk ==
    [n \in {<<BASE, d>> : d \in 0..(StartDay - 1)}
            \cup {<<BASE, d, 1, GZ>> : d \in 0..(StartDay - 1)}
            \cup {<<BASE, StartDay, 1>>}
        |-> IF n[Len(n)] = GZ THEN Gzip(<<NL>>) ELSE <<NL>>]

\* a live file left by an earlier run under a larger threshold
LongLine == [i \in 1..(SizeLimit + 1) |-> IF i = SizeLimit + 1 THEN NL ELSE 97]

InitDisks == {EmptyDisk, HistoryDisk, Put(HistoryDisk, path, <<97, NL>>),
              Put(EmptyDisk, path, LongLine)}

InitEngine ==
    /\ cfg \in Configs
    /\ today = StartDay
    /\ disk \in InitDisks
    /\ mtime = StartDay - 1
    /\ file = FALSE
    /\ cur_size = 0
    /\ create_day = -1
    /\ faults = 0

\* no chunk read yet by the producers of ps
NoFlow(ps) ==
    [tags |-> <<>>, rd |-> [p \in DOMAIN ps |-> <<>>], rcv |-> [p \in DOMAIN ps |-> <<>>],
     failed |-> {}]

\* An abstract producer in place of main's source and listener.
InitFeed ==
    /\ src = "feed"
    /\ srcpc = "done"
    /\ ppc = <<>>
    /\ pbuf = <<>>
    /\ child = "none"
    /\ sig = "done"
    /\ subs = {}
    /\ inbox = {}
    /\ bsent = <<>>
    /\ flow = NoFlow(<<>>)
    /\ senders = {"src"}

InitOrch ==
    /\ chan = <<>>
    /\ nread = 0
    /\ tail = <<>>
    /\ pc = "recv"
    /\ pending = <<>>
    /\ call = NoCall
    /\ last = NoLast
    /\ ev = NoEvent
    /\ inp = <<>>
    /\ out = <<>>

Init == InitEngine /\ InitOrch /\ InitFeed

Next ==
    \/ FeedLine
    \/ (pc = "recv" /\ chan = <<>> /\ EndOfInput)
    \/ DayPasses
    \/ OrchRecv
    \/ OrchEnd
    \/ OrchClose
    \/ SizeGetFile
    \/ DailyGetFile

Spec == Init /\ [][Next]_vars


(***************************************************************************)
(* The pipeline of main: source ingestion (stdin_read, or pm::spawn with   *)
(* its two handle_out tasks), the interrupt listener (signal), and start,  *)
(* on one cooperative scheduler: a task runs only while start is suspended *)
(* in recv or has returned.                                                *)
(***************************************************************************)
OrchIdle == pc \in {"recv", "done"}

\* the handle_out tasks run once main's first poll of join! has ended
TaskMayRun(p) == OrchIdle /\ (p # "stdin" => sig # "init")

\* the mpsc::Receiver is dropped when start returns
ReceiverGone == pc = "done"

\* the broadcast receiver a producer's select! listens on: stdin_read has one,
\* handle_out has none
Listens(p) == p = "stdin"

\* the external source of producer p can deliver bytes / has ended
SourceHasData(p) == p = "stdin" \/ child = "running"
SourceEnded(p) == p = "stdin" \/ child = "exited"

\* a send that loses the chunk
send_dropping(q, c) == q

\* sender.send(buf): the chunk joins the end of the queue
send(q, c) == Append(q, c)

\* a producer that sends whatever the read left in buf
sends_always(buf) == TRUE

\* `if buf.len() > 0`: the test a producer makes before it sends buf
sends(buf) == Len(buf) > 0

\* stdin_read up to its loop: ch.subscribe()
StdinInit ==
    /\ src = "stdin"
    /\ ppc["stdin"] = "init"
    /\ OrchIdle
    /\ ppc' = [ppc EXCEPT !["stdin"] = "select"]
    /\ subs' = subs \cup {"src"}
    /\ UNCHANGED <<engineVars, flow, chan, senders, nread, orchVars,
                   src, srcpc, pbuf, child, sig, inbox, bsent>>

\* select!'s read branch with bytes read: sender.send(buf), which returns at once
\* when the channel has room (or the receiver is gone: the error is logged and
\* the loop goes on), and otherwise waits.
ProdRead(p, c) ==
    /\ p \in DOMAIN ppc
    /\ ppc[p] = "select"
    /\ TaskMayRun(p)
    /\ SourceHasData(p)
    /\ nread < MaxFeed
    /\ sends(c)
    /\ nread' = nread + 1
    /\ IF ReceiverGone
       THEN /\ flow' = [flow EXCEPT !.rd[p] = Append(@, c), !.failed = @ \cup {p}]
            /\ UNCHANGED <<chan, ppc, pbuf>>
       ELSE IF Len(chan) < ChanCap
            THEN /\ chan' = send(chan, c)
                 /\ flow' = [flow EXCEPT !.rd[p] = Append(@, c), !.tags = Append(@, p)]
                 /\ UNCHANGED <<ppc, pbuf>>
            ELSE /\ ppc' = [ppc EXCEPT ![p] = "send"]
                 /\ pbuf' = [pbuf EXCEPT ![p] = c]
                 /\ flow' = [flow EXCEPT !.rd[p] = Append(@, c)]
                 /\ chan' = chan
    /\ UNCHANGED <<engineVars, senders, orchVars, src, srcpc, child, sig, subs, inbox, bsent>>

\* a waiting send returns: the channel has room, or the receiver is gone
ProdSent(p) ==
    /\ p \in DOMAIN ppc
    /\ ppc[p] = "send"
    /\ TaskMayRun(p)
    /\ ReceiverGone \/ Len(chan) < ChanCap
    /\ chan' = IF ReceiverGone THEN chan ELSE send(chan, pbuf[p])
    /\ flow' = IF ReceiverGone THEN [flow EXCEPT !.failed = @ \cup {p}]
               ELSE [flow EXCEPT !.tags = Append(@, p)]
    /\ ppc' = [ppc EXCEPT ![p] = "select"]
    /\ pbuf' = [pbuf EXCEPT ![p] = <<>>]
    /\ UNCHANGED <<engineVars, senders, nread, orchVars, src, srcpc, child, sig, subs, inbox, bsent>>

\* the producer returns: its sender is dropped, and with it the broadcast
\* receiver it holds
ProdReturns(p) ==
    /\ ppc' = [ppc EXCEPT ![p] = "done"]
    /\ senders' = senders \ {p}
    /\ subs' = IF Listens(p) THEN subs \ {"src"} ELSE subs
    /\ inbox' = IF Listens(p) THEN inbox \ {"src"} ELSE inbox

\* select!'s read branch with nothing read: Ok(0) at end of input, or a read
\* error.  buf is empty, so nothing is sent; then break.
ProdEnd(p) ==
    /\ p \in DOMAIN ppc
    /\ ppc[p] = "select"
    /\ TaskMayRun(p)
    /\ SourceEnded(p)
    /\ LET buf == <<>>
       IN  IF sends(buf) /\ ~ReceiverGone
           THEN /\ Len(chan) < ChanCap
                /\ chan' = send(chan, buf)
                /\ flow' = [flow EXCEPT !.tags = Append(@, p)]
           ELSE UNCHANGED <<chan, flow>>
    /\ ProdReturns(p)
    /\ UNCHANGED <<engineVars, nread, orchVars, src, srcpc, pbuf, child, sig, bsent>>

\* stdin_read's select!, the cr.recv() branch: break
StdinShutdown ==
    /\ src = "stdin"
    /\ ppc["stdin"] = "select"
    /\ OrchIdle
    /\ "src" \in inbox
    /\ ProdReturns("stdin")
    /\ UNCHANGED <<engineVars, flow, chan, nread, orchVars, src, srcpc, pbuf, child, sig, bsent>>

\* pm::spawn up to its select!: the child is spawned, a handle_out task is spawned
\* for each pipe with a clone of the sender, then ch.subscribe()
SpawnInit ==
    /\ src = "child"
    /\ srcpc = "init"
    /\ OrchIdle
    /\ child' = "running"
    /\ ppc' = [p \in DOMAIN ppc |-> "select"]
    /\ senders' = senders \cup DOMAIN ppc
    /\ subs' = subs \cup {"src"}
    /\ srcpc' = "select"
    /\ UNCHANGED <<engineVars, flow, chan, nread, orchVars, src, pbuf, sig, inbox, bsent>>

\* pm::spawn's select!: child.wait() returns, or cr.recv() does
SpawnWait ==
    /\ srcpc = "select"
    /\ OrchIdle
    /\ child = "exited" \/ "src" \in inbox
    /\ srcpc' = "join"
    /\ UNCHANGED <<engineVars, flow, chan, senders, nread, orchVars,
                   src, ppc, pbuf, child, sig, subs, inbox, bsent>>

\* pm::spawn after its joins: both handle_out tasks have returned; spawn returns
\* and drops the sender and the broadcast receiver
SpawnReturns ==
    /\ srcpc = "join"
    /\ OrchIdle
    /\ \A p \in DOMAIN ppc : ppc[p] = "done"
    /\ srcpc' = "done"
    /\ senders' = senders \ {"main"}
    /\ subs' = subs \ {"src"}
    /\ inbox' = inbox \ {"src"}
    /\ UNCHANGED <<engineVars, flow, chan, nread, orchVars, src, ppc, pbuf, child, sig, bsent>>

\* the child process exits; its pipes reach end of file
ChildExits ==
    /\ child = "running"
    /\ child' = "exited"
    /\ UNCHANGED <<engineVars, flow, chan, senders, nread, orchVars,
                   src, srcpc, ppc, pbuf, sig, subs, inbox, bsent>>

\* signal up to its select!: ch.subscribe()
SigInit ==
    /\ sig = "init"
    /\ SourcePolled
    /\ OrchIdle
    /\ sig' = "wait"
    /\ subs' = subs \cup {"sig"}
    /\ UNCHANGED <<engineVars, flow, chan, senders, nread, orchVars,
                   src, srcpc, ppc, pbuf, child, inbox, bsent>>

\* a listener that gives up its broadcast receiver before it sleeps
SigInterrupt_drops_receiver ==
    /\ sig = "wait"
    /\ OrchIdle
    /\ sig' = "grace"
    /\ subs' = subs \ {"sig"}
    /\ inbox' = inbox \ {"sig"}
    /\ UNCHANGED <<engineVars, flow, chan, senders, nread, orchVars,
                   src, srcpc, ppc, pbuf, child, bsent>>

\* select!'s ctrl_c() branch with Ok: the listener starts its 500 ms sleep
SigInterrupt ==
    /\ sig = "wait"
    /\ OrchIdle
    /\ sig' = "grace"
    /\ UNCHANGED <<engineVars, flow, chan, senders, nread, orchVars,
                   src, srcpc, ppc, pbuf, child, subs, inbox, bsent>>

\* a listener that goes back to waiting for the next interrupt
SigReturns_to_wait(to) ==
    /\ sig' = "wait"
    /\ subs' = subs

\* the listener returns and drops its broadcast receiver
SigReturns(to) ==
    /\ sig' = to
    /\ subs' = subs \ {"sig"}

\* select!'s ctrl_c() branch with Err: logged, nothing sent
SigError ==
    /\ sig = "wait"
    /\ OrchIdle
    /\ SigReturns("done")
    /\ inbox' = inbox \ {"sig"}
    /\ UNCHANGED <<engineVars, flow, chan, senders, nread, orchVars,
                   src, srcpc, ppc, pbuf, child, bsent>>

\* select!'s cr.recv() branch
SigSeen ==
    /\ sig = "wait"
    /\ OrchIdle
    /\ "sig" \in inbox
    /\ SigReturns("done")
    /\ inbox' = inbox \ {"sig"}
    /\ UNCHANGED <<engineVars, flow, chan, senders, nread, orchVars,
                   src, srcpc, ppc, pbuf, child, bsent>>

\* the sleep ends: ch.send(()).expect(..), which panics with no receiver
SigSend ==
    /\ sig = "grace"
    /\ OrchIdle
    /\ IF subs = {}
       THEN /\ SigReturns("panic")
            /\ UNCHANGED <<inbox, bsent>>
       ELSE /\ SigReturns("done")
            /\ inbox' = (inbox \cup subs) \ {"sig"}
            /\ bsent' = Append(bsent, "sig")
    /\ UNCHANGED <<engineVars, flow, chan, senders, nread, orchVars, src, srcpc, ppc, pbuf, child>>

Producers == {"stdin", "stdout", "stderr"}

\* what a source delivers: the child's stderr writes another letter than its
\* stdout, so that the stream a byte came from can be read off the byte
StreamByte(p) == IF p = "stderr" THEN 98 ELSE 97

\* the lengths of the chunks a read delivers
ChunkLens == {1, 2}

ChunksOf(p) == UNION {[1..n -> {NL, StreamByte(p)}] : n \in ChunkLens}

Read == \E p \in Producers : \E c \in ChunksOf(p) : ProdRead(p, c)
Sent == \E p \in Producers : ProdSent(p)
End == \E p \in Producers : ProdEnd(p)

InitPipe ==
    /\ InitOrch
    /\ cfg \in {c \in Configs : c.mode = "size" /\ c.compress /\ c.keep_days = 1 /\ c.has_dir}
    /\ today = StartDay
    /\ disk = EmptyDisk
    /\ mtime = StartDay
    /\ file = FALSE
    /\ cur_size = 0
    /\ create_day = -1
    /\ faults = 0
    /\ src \in {"stdin", "child"}
    /\ srcpc = IF src = "child" THEN "init" ELSE "none"
    /\ ppc = IF src = "child" THEN [p \in {"stdout", "stderr"} |-> "unspawned"]
             ELSE [p \in {"stdin"} |-> "init"]
    /\ pbuf = [p \in DOMAIN ppc |-> <<>>]
    /\ child = "none"
    /\ senders = IF src = "child" THEN {"main"} ELSE {"stdin"}
    /\ sig = "init"
    /\ subs = {}
    /\ inbox = {}
    /\ bsent = <<>>
    /\ flow = NoFlow(ppc)

NextPipe ==
    \/ StdinInit
    \/ Read
    \/ Sent
    \/ End
    \/ StdinShutdown
    \/ SpawnInit
    \/ SpawnWait
    \/ SpawnReturns
    \/ ChildExits
    \/ SigInit
    \/ SigInterrupt
    \/ SigError
    \/ SigSeen
    \/ SigSend
    \/ OrchRecv
    \/ OrchEnd
    \/ OrchClose
    \/ SizeGetFile

SpecPipe == InitPipe /\ [][NextPipe]_vars

(***************************************************************************)
(* Line reassembly over arbitrary chunkings, feeding the size policy.      *)
(***************************************************************************)
\* The producers' side of the channel taken on its own.  stdin_read and
\* handle_out are handed an mpsc::Sender and handle the error of send, which
\* tokio returns when the Receiver has been dropped.  In main the receiver
\* lives in start, which returns only after every sender is dropped, so
\* SpecPipe never takes that branch; here the holder of the receiver may drop
\* it while senders are alive (the queued chunks go with it), which is the
\* case the error handling is written for.
ReceiverDropped ==
    /\ pc = "recv"
    /\ FirstPollDone
    /\ senders # {}
    /\ pc' = "done"
    /\ chan' = <<>>
    /\ flow' = [flow EXCEPT !.tags = <<>>]
    /\ UNCHANGED <<engineVars, senders, nread, tail, pending, call, last, ev, inp, out,
                   src, srcpc, ppc, pbuf, child, sig, subs, inbox, bsent>>

NextProducers == NextPipe \/ ReceiverDropped

SpecProducers == InitPipe /\ [][NextProducers]_vars

InitLines ==
    /\ InitOrch
    /\ InitFeed
    /\ cfg \in {c \in Configs : c.mode = "size" /\ ~c.compress /\ c.keep_days = 1 /\ c.has_dir}
    /\ today = StartDay
    /\ disk = EmptyDisk
    /\ mtime = StartDay
    /\ file = FALSE
    /\ cur_size = 0
    /\ create_day = -1
    /\ faults = 0

NextLines ==
    \/ (pc = "recv" /\ chan = <<>> /\ FeedChunk)
    \/ (pc = "recv" /\ chan = <<>> /\ EndOfInput)
    \/ OrchRecv
    \/ OrchEnd
    \/ OrchClose
    \/ SizeGetFile

SpecLines == InitLines /\ [][NextLines]_vars

(***************************************************************************)
(* Start-up: how the size threshold reaches the engine.  An Option<u64> is *)
(* a sequence: <<>> is None, <<x>> is Some(x).  cfg holds what the user    *)
(* supplied (the --file-size option, LOG_ROTATE_FILE_SIZE, the file_size   *)
(* key of the configuration file), then args.file_size, then the engine's  *)
(* size_limit.  The run ends where start waits in recv.                    *)
(***************************************************************************)
\* clap's default_value of file_size
DefaultFileSize == 16777216

\* SizeRotate::new's value for file_size = None
FallbackFileSize == 1024 * 1024 * 20

\* the thresholds a user supplies
SuppliedSizes == {1, 1024, DefaultFileSize, FallbackFileSize}

Supplied == {<<>>} \cup {<<x>> : x \in SuppliedSizes}

\* an argument parser with no default_value: the field stays None
clap_file_size_no_default(cli, env) == IF cli # <<>> THEN cli ELSE env

\* Args::parse for file_size: the option, else the environment variable,
\* else default_value; the field is always Some
clap_file_size(cli, env) ==
    IF cli # <<>> THEN cli ELSE IF env # <<>> THEN env ELSE <<DefaultFileSize>>

\* parse_args: a file_size key of the configuration file replaces the field
config_file_size(parsed, table) == IF table # <<>> THEN table ELSE parsed

\* SizeRotate::new: size_limit = file_size.or_else(|| Some(1024 * 1024 * 20)).unwrap()
SizeRotate_new(file_size) == IF file_size = <<>> THEN FallbackFileSize ELSE file_size[1]

\* Args::parse()
ArgsParse ==
    /\ pc = "args"
    /\ cfg' = [cfg EXCEPT !.file_size = clap_file_size(cfg.cli, cfg.env)]
    /\ pc' = "config"
    /\ UNCHANGED <<today, disk, mtime, file, cur_size, create_day, faults, chan, senders,
                   nread, tail, pending, call, last, ev, inp, out, pipeVars>>

\* parse_args, the configuration file
ConfigRead ==
    /\ pc = "config"
    /\ cfg' = [cfg EXCEPT !.file_size = config_file_size(cfg.file_size, cfg.table)]
    /\ pc' = "new"
    /\ UNCHANGED <<today, disk, mtime, file, cur_size, create_day, faults, chan, senders,
                   nread, tail, pending, call, last, ev, inp, out, pipeVars>>

\* start's call of new: the size policy builds a SizeRotate, the daily policy
\* takes no threshold
New ==
    /\ pc = "new"
    /\ cfg' = [cfg EXCEPT !.size_limit = IF cfg.mode = "size"
                                         THEN <<SizeRotate_new(cfg.file_size)>> ELSE <<>>]
    /\ pc' = "recv"
    /\ UNCHANGED <<today, disk, mtime, file, cur_size, create_day, faults, chan, senders,
                   nread, tail, pending, call, last, ev, inp, out, pipeVars>>

InitArgs ==
    /\ InitFeed
    /\ cfg \in [mode : {"size", "daily"}, cli : Supplied, env : Supplied, table : Supplied,
                 file_size : {<<>>}, size_limit : {<<>>}]
    /\ today = StartDay
    /\ disk = EmptyDisk
    /\ mtime = StartDay
    /\ file = FALSE
    /\ cur_size = 0
    /\ create_day = -1
    /\ faults = 0
    /\ chan = <<>>
    /\ nread = 0
    /\ tail = <<>>
    /\ pc = "args"
    /\ pending = <<>>
    /\ call = NoCall
    /\ last = NoLast
    /\ ev = NoEvent
    /\ inp = <<>>
    /\ out = <<>>

NextArgs == ArgsParse \/ ConfigRead \/ New

SpecArgs == InitArgs /\ [][NextArgs]_vars

(***************************************************************************)
(* Claims.                                                                 *)
(***************************************************************************)
\* the slices of the chunk in hand that write_all has not been called with yet
NotYetPassed == IF call.rot > 0 THEN Tail(pending) ELSE pending

\* the bytes held back as the pending tail
TailBytes == IF tail = <<>> THEN <<>> ELSE tail[1]

\* C1: byte conservation.  At every point the bytes received so far are, in
\* order, the bytes already passed to write_all, then the slices of the chunk in
\* hand still to be passed, then the pending tail; when start has finished, the
\* bytes passed to write_all (the flushed tail included) are exactly the bytes
\* received.
C1_ByteConservation ==
    /\ inp = out \o Concat(NotYetPassed) \o TailBytes
    /\ pc = "done" => out = inp

\* A run that ended after a chunk with a partial last line: the tail was held
\* back, then flushed as the final slice.
C1_Witness ==
    /\ pc = "done"
    /\ Len(inp) >= 3
    /\ inp[Len(inp)] # NL
    /\ \E i \in 1..Len(inp) : inp[i] = NL
    /\ out = inp

\* C2: no line is split across two files.  Every archive a rotation has made
\* holds whole lines only: it is empty or ends with a newline, so no line
\* begins in an archive and ends in the file that replaced it.
C2_NoLineSplitAcrossFiles ==
    \A n \in DOMAIN disk :
        (n # path /\ n[Len(n)] # GZ) => (disk[n] = <<>> \/ disk[n][Len(disk[n])] = NL)

\* C3: with keep_days = 0 retention is disabled: no rotation pass removes a
\* file in its retention sweep.
C3_NoSweepWhenDisabled ==
    (ev.done /\ cfg.keep_days = 0) => ev.swept = {}

\* C4: size policy.  A finished write_all call wrote in place, with no rotation
\* pass, exactly when cur_size + len <= size_limit held at its first check; a
\* call that made a rotation pass failed that check, and when such a call
\* wrote its bytes the live file had been renamed before.
C4_SizeInPlaceIff ==
    cfg.mode = "size" =>
        /\ last.n = 1 => ((last.rot = 0) <=> (last.before + last.len <= cfg.size_limit))
        /\ (last.n = 1 /\ last.rot = 0) => last.ok
        /\ (last.n = 1 /\ last.ok /\ last.rot > 0) => last.renames >= 1
        /\ (pc \in {"write", "flush_tail"} /\ call.rot > 0)
               => call.before + Len(Head(pending)) > cfg.size_limit

\* A write that did not fit: one rotation, then the bytes were written.
C4_Witness ==
    /\ cfg.mode = "size"
    /\ last.n = 1 /\ last.ok
    /\ last.before > 0 /\ last.before <= cfg.size_limit
    /\ last.before + last.len > cfg.size_limit
    /\ last.rot = 1 /\ last.renames = 1
    /\ disk[path] = Repeat(97, last.len - 1) \o <<NL>>

\* C5: daily policy.  A finished write under the daily policy made no rotation
\* pass when the cached create_day was the current day at its check, and
\* otherwise was written after exactly one rename of the live file; after it
\* the cached create_day is the day of the write, so the following writes of
\* that day rotate nothing.
C5_DailyOneRotation ==
    cfg.mode = "daily" =>
        /\ (last.n = 1 /\ last.before = last.day) => (last.rot = 0 /\ last.ok)
        /\ (last.n = 1 /\ last.ok /\ last.before # last.day) => last.renames = 1
        /\ (last.n = 1 /\ last.ok /\ file) => create_day = last.day_end

\* Midnight passed during the run; the first write after it rotated once.
C5_Witness ==
    /\ cfg.mode = "daily"
    /\ today = StartDay + 1
    /\ last.n = 1 /\ last.ok
    /\ last.before = StartDay /\ last.day = StartDay + 1
    /\ last.renames = 1
    /\ create_day = today

\* C6: archival files are never overwritten: the name a rotation pass renames
\* the live file to is not the name of an existing file, and under compression
\* neither is its .gz form.
C6_NoArchiveOverwritten ==
    (ev.done /\ ev.renamed) =>
        /\ ~ev.target_existed
        /\ cfg.compress => ~ev.gz_existed

\* C7: on a rotation with keep_days = k > 0, after the pass no directory entry
\* starts with <base>.<today - k>, and no entry with another date was removed
\* by the sweep.
C7_SweepExactBoundary ==
    (ev.done /\ ev.renamed /\ cfg.keep_days > 0) =>
        /\ ev.left = {}
        /\ \A n \in ev.swept : Len(n) >= 2 /\ n[2] = ev.expire

\* C8: the retention sweep never removes the live destination path.
C8_SweepKeepsLive ==
    ev.done => path \notin ev.swept

\* A pass whose rename failed, so the live file was still at the destination
\* path while the sweep removed expired archives.
C8_Witness ==
    /\ ev.done
    /\ ~ev.renamed
    /\ ev.sweep
    /\ ev.swept # {}
    /\ is_file(disk, path)

\* the bytes archive number i of the run's day holds: the plain archive when it
\* is there, else the decoded .gz
ArchiveBytes(i) ==
    LET name == <<BASE, StartDay, i>>
    IN  IF is_file(disk, name) THEN disk[name]
        ELSE IF is_file(disk, gz_name(name)) THEN Gunzip(disk[gz_name(name)])
        ELSE <<>>

ArchiveThere(i) ==
    is_file(disk, <<BASE, StartDay, i>>) \/ is_file(disk, gz_name(<<BASE, StartDay, i>>))

\* the bytes on disk, oldest archive first, the live file last
RECURSIVE ArchivedFrom(_)
ArchivedFrom(i) ==
    IF ~ArchiveThere(i) THEN <<>> ELSE ArchiveBytes(i) \o ArchivedFrom(i + 1)

OnDisk == ArchivedFrom(1) \o (IF is_file(disk, path) THEN disk[path] ELSE <<>>)

ListenerFired == \E i \in DOMAIN bsent : bsent[i] = "sig"

\* C9: drain on shutdown.  Once the listener has sent the shutdown broadcast,
\* start closes the file only with the channel closed and empty and no send
\* left waiting, and at that close every byte it received (so every chunk that
\* was queued or being sent when the broadcast fired), the trailing partial
\* line included, is on disk.
C9_DrainedToDisk ==
    (ListenerFired /\ pc = "done") =>
        /\ chan = <<>>
        /\ senders = {}
        /\ \A p \in DOMAIN ppc : ppc[p] # "send"
        /\ OnDisk = inp

\* C10: producers stop on shutdown.  Once a shutdown broadcast has been sent,
\* no producer reads another chunk from its external source.
C10_NoReadAfterBroadcast ==
    [][bsent # <<>> => nread' = nread]_vars

\* the compression step of the last rotation pass failed
GzipFailed == ev.done /\ ev.gz \in {"open", "copy", "remove"}

\* C11: a compression failure never drops the line in flight.  When the last
\* finished write_all call rotated and the compression step of its rotation
\* failed, the call still wrote its line: the live file ends with it.
C11_GzipFailureKeepsLine ==
    (last.n = 1 /\ last.rot > 0 /\ call.rot = 0 /\ GzipFailed) => last.ok

(***************************************************************************)
(* The pipeline under fair scheduling.  The runtime polls every task that  *)
(* is ready: a step of start, of the engine, of spawn, of the listener, a  *)
(* waiting send whose channel has room, or a shutdown branch of select!    *)
(* that is ready, is eventually taken.  What the outside world does (bytes *)
(* arriving, end of input, the child exiting, the interrupt) is under no   *)
(* fairness.                                                               *)
(***************************************************************************)
Scheduled ==
    \/ StdinInit \/ SpawnInit \/ SigInit
    \/ OrchRecv \/ OrchEnd \/ OrchClose
    \/ Sent \/ StdinShutdown \/ SpawnWait \/ SpawnReturns
    \/ SigSeen \/ SigSend

\* SizeGetFile can take a step: start is inside write_all, and get_file either
\* finds room or may make another rotation pass (a pass with no failing
\* operation is always possible)
SizeGetFileReady ==
    /\ pc \in {"write", "flush_tail"}
    /\ cfg.mode = "size"
    /\ LET len == Len(Head(pending))
           cur == IF file THEN cur_size
                  ELSE IF is_file(disk, path) THEN Len(disk[path]) ELSE 0
       IN  size_fits(cur, len, cfg.size_limit) \/ call.rot < MaxPasses

\* weak fairness of SizeGetFile, with its enabling condition written out
SizeGetFileFair == []<>(~SizeGetFileReady) \/ []<><<SizeGetFile>>_vars

SpecPipeFair == SpecPipe /\ WF_vars(Scheduled) /\ SizeGetFileFair

\* the source ingestion future of main has completed
SourceDone == IF src = "child" THEN srcpc = "done" ELSE ppc["stdin"] = "done"

\* join! has completed: main drops ch and calls exit(0)
Exited0 == pc = "done" /\ SourceDone /\ sig = "done"

\* C12: natural end of source.  Once every producer has dropped its sender with
\* no interrupt pending and no broadcast sent, start flushes the tail, closes
\* and broadcasts, the listener ends, and the process exits with code 0.
C12_NaturalEndExits ==
    (senders = {} /\ bsent = <<>> /\ sig # "grace") ~> Exited0

\* the order at the natural end: when start has broadcast, the tail was flushed
\* (every byte received was passed to write_all) and the engine is closed
NaturalEndOrder ==
    (\E i \in DOMAIN bsent : bsent[i] = "orch") =>
        (pc = "done" /\ tail = <<>> /\ pending = <<>> /\ ~file /\ out = inp
         /\ chan = <<>> /\ senders = {})

\* C13: interrupt in stdin mode.  Once the listener has received the interrupt,
\* it broadcasts, the stdin reader returns and drops its sender, start drains
\* and finishes, and the process exits with code 0.
C13_InterruptStdinExits ==
    (src = "stdin" /\ sig = "grace") ~> Exited0

\* C14: compression result.  After a rotation pass under compression whose
\* gzip step succeeded, <archive>.gz exists and decodes to the bytes the live
\* file held when it was renamed, and the uncompressed <archive> is gone.
C14_GzipResult ==
    (ev.done /\ ev.renamed /\ ev.gz = "ok") =>
        /\ ev.gz_after # <<>>
        /\ Gunzip(ev.gz_after[1]) = ev.live_data
        /\ ~ev.plain_after

\* a name is unused among the entries `names`: it is not there, and under
\* compression neither is its .gz form
Unused(names, n) == n \notin names /\ (cfg.compress => gz_name(n) \notin names)

\* the smallest N >= 1 for which <dest>.<day>-N is unused
SmallestUnused(names, dy) ==
    CHOOSE i \in 1..(Cardinality(names) + 1) :
        /\ Unused(names, <<BASE, dy, i>>)
        /\ \A j \in 1..(i - 1) : ~Unused(names, <<BASE, dy, j>>)

\* C15: archival naming.  The name a rotation pass chooses is, under the daily
\* policy, <dest>.<day> when that name is unused and else <dest>.<day>-N, and
\* under the size policy always <dest>.<day>-N, with N the smallest integer
\* >= 1 whose name is unused.
C15_ArchiveName ==
    ev.done =>
        ev.name = IF cfg.mode = "daily" /\ Unused(ev.names_before, <<BASE, ev.day>>)
                  THEN <<BASE, ev.day>>
                  ELSE <<BASE, ev.day, SmallestUnused(ev.names_before, ev.day)>>

\* C16: a rename failure is non-fatal.  A finished write_all call in which a
\* rotation pass failed to rename (more passes than renames) made that one pass
\* only, and then appended its bytes to the unrotated file.
C16_RenameFailureFallsBack ==
    (last.n = 1 /\ last.rot > last.renames) =>
        (last.ok /\ last.rot = 1 /\ last.renames = 0)

NoNewline(c) == \A i \in 1..Len(c) : c[i] # NL

\* C18: reassembly with a pending tail.  When start receives a chunk holding no
\* newline while a tail is pending, it passes nothing to write_all for that
\* chunk and keeps the old tail followed by the chunk as the pending tail.
C18_NewlineFreeChunkJoinsTail ==
    [][(pc = "recv" /\ chan # <<>> /\ tail # <<>> /\ NoNewline(Head(chan)))
        => (pc' = "recv" /\ pending' = <<>> /\ out' = out
            /\ tail' = <<tail[1] \o Head(chan)>>)]_vars

\* get_file is between a rotation pass and the reopening of the destination
InRotation == pc \in {"write", "flush_tail"} /\ call.rot > 0 /\ ev.done

\* C19: the order of a rotation.  When a rotation pass has ended and the
\* destination is not yet reopened: the handle is closed; after a successful
\* rename no replacement live file exists yet, although the compression has
\* returned and the sweep has run; the .gz, when still there, holds the whole
\* content of the renamed file; and the sweep worked on the directory as the
\* compression left it (it removed the new .gz when that carries the expired
\* date, and found no new live file).
C19_RotateOrder ==
    InRotation =>
        /\ ~file
        /\ ev.renamed => ~is_file(disk, path)
        /\ (ev.renamed /\ ev.gz = "ok")
               => /\ ev.sweep
                  /\ ~ev.plain_after
                  /\ ev.gz_after # <<>> => Gunzip(ev.gz_after[1]) = ev.live_data
                  /\ (cfg.has_dir /\ ev.expire = ev.day) => gz_name(ev.name) \in ev.swept
        /\ path \notin ev.swept

\* A pass under compression: renamed, compressed, swept (the sweep deleted
\* archives), the destination not yet reopened.
C19_Witness ==
    /\ InRotation
    /\ ev.renamed /\ ev.gz = "ok" /\ ev.sweep
    /\ ev.live_data # <<>>
    /\ ev.gz_after # <<>>
    /\ ev.swept # {}
    /\ ~is_file(disk, path)

\* C20: under the size policy one write_all call rotates at most once: within a
\* call of get_file, whatever len is, the live file is renamed at most once
\* before the bytes are written.
C20_SizeAtMostOneRotation ==
    cfg.mode = "size" =>
        /\ call.renames <= 1
        /\ last.n = 1 => last.renames <= 1

\* the bytes of s come from one stream only
OneStream(s) == ~(\E i, j \in DOMAIN s : s[i] = StreamByte("stdout") /\ s[j] = StreamByte("stderr"))

\* C21: in child-process mode every slice start passes to write_all, and the
\* pending tail, hold bytes of a single stream: a tail left by a chunk of one
\* stream is never joined with a chunk of the other.
C21_LinesOfOneStream ==
    src = "child" =>
        /\ \A i \in DOMAIN pending : OneStream(pending[i])
        /\ \A i \in DOMAIN tail : OneStream(tail[i])


\* the chunks of producer p waiting in the channel, oldest first
RECURSIVE QueuedFrom(_, _)
QueuedFrom(p, i) ==
    IF i > Len(chan) THEN <<>>
    ELSE (IF flow.tags[i] = p THEN <<chan[i]>> ELSE <<>>) \o QueuedFrom(p, i + 1)

\* the chunk producer p holds while its send waits for room
Held(p) == IF ppc[p] = "send" THEN <<pbuf[p]>> ELSE <<>>

\* the bytes of s that only producer p reads
BytesOf(p, s) == SelectSeq(s, LAMBDA b : b = StreamByte(p))

ListenerSends(b) == Len(SelectSeq(b, LAMBDA w : w = "sig"))

\* C23: the listener sends the broadcast at most once, and only at the end of
\* the grace delay that follows an interrupt; when it leaves its select on a
\* broadcast of the orchestrator it sends nothing, and once it has returned
\* it stays returned.
C23_ListenerSendsOnce ==
    [][ /\ ListenerSends(bsent') <= 1
        /\ ListenerSends(bsent') # ListenerSends(bsent) => (sig = "grace" /\ sig' = "done")
        /\ (sig = "wait" /\ sig' = "done") => bsent' = bsent
        /\ sig = "done" => sig' = "done" ]_vars

\* the listener has sent its broadcast and returned, and the orchestrator
\* has sent its own at the close
C23_Witness ==
    /\ sig = "done"
    /\ bsent = <<"sig", "orch">>


\* C24: a producer whose send has failed because the receiver is gone has
\* left its read loop: it reads nothing more and sends nothing more.
C24_FailedSendStopsProducer ==
    [][ \A p \in flow.failed :
            /\ flow'.rd[p] = flow.rd[p]
            /\ ppc'[p] # "send" ]_vars


\* C25: under the size policy an open handle means cur_size <= size_limit, with
\* cur_size the length of the live file, and every step that changes the live
\* file leaves it no longer than size_limit.
C25_SizeNeverExceedsLimit ==
    /\ [](cfg.mode = "size" /\ file =>
            /\ cur_size <= cfg.size_limit
            /\ cur_size = Len(disk[path]))
    /\ [][ ( /\ cfg.mode = "size"
             /\ is_file(disk', path)
             /\ ~is_file(disk, path) \/ disk'[path] # disk[path] )
           => Len(disk'[path]) <= cfg.size_limit ]_vars

\* a write has returned a handle after rotating away a live file that was
\* longer than the threshold when the engine first opened it
C25_Witness ==
    /\ cfg.mode = "size"
    /\ last.n = 1 /\ last.ok
    /\ last.before > cfg.size_limit
    /\ last.rot >= 1
    /\ file
    /\ Len(disk[path]) = last.len


\* C26: flush and close are idempotent under both policies.  In every state
\* of the engine: with no file open neither changes anything; a second close
\* changes nothing after the first; a flush changes nothing after a flush;
\* and after close no handle is left.  start's own close leaves the engine as
\* close says.
C26_FlushCloseIdempotent ==
    /\ [](/\ ~file => (flush(Engine) = Engine /\ close(Engine) = Engine)
          /\ close(close(Engine)) = close(Engine)
          /\ flush(flush(Engine)) = flush(Engine)
          /\ ~close(Engine).file
          /\ close(Engine).disk = disk)
    /\ [][(pc = "close" /\ pc' = "done")
            => (Engine' = close(Engine) /\ close(Engine') = Engine')]_vars

\* start has closed an engine whose handle was open, under either policy
C26_Witness ==
    /\ pc = "done"
    /\ last.n = 1 /\ last.ok
    /\ ~file
    /\ is_file(disk, path)
    /\ out # <<>>


\* nothing supplied: no --file-size option, no LOG_ROTATE_FILE_SIZE, no
\* file_size key in a configuration file
NothingSupplied == cfg.cli = <<>> /\ cfg.env = <<>> /\ cfg.table = <<>>

C28_ChunksNonEmpty ==
    /\ \A i \in DOMAIN chan : chan[i] # <<>>
    /\ \A p \in DOMAIN ppc : ppc[p] = "send" => pbuf[p] # <<>>
    /\ pc # "panic"

\* a producer's read has ended with nothing in buf after start had taken a chunk
\* from the channel, and start has finished
C28_Witness ==
    /\ src \in {"stdin", "child"}
    /\ \A p \in DOMAIN ppc : ppc[p] = "done"
    /\ bsent = <<"orch">>
    /\ inp # <<>>
    /\ pc = "done"


\* C29: when a shutdown broadcast has been sent, by the listener or by start,
\* the listener and the source task had subscribed before; and every receiver
\* still subscribed after a broadcast has it in its inbox.
C29_SubscribedBeforeBroadcast ==
    /\ [](bsent # <<>> => (sig # "init" /\ SourcePolled))
    /\ [][bsent' # bsent => (\A s \in subs' : s \in inbox')]_vars

\* start has broadcast at its close while the listener was still waiting for
\* an interrupt: the listener, subscribed in time, has the broadcast
C29_Witness ==
    /\ bsent = <<"orch">>
    /\ sig = "wait"
    /\ "sig" \in inbox
    /\ srcpc = "done"


\* C30: the listener's send never fails.  Through the whole grace delay the
\* listener's own receiver is subscribed, so ch.send(()) finds a receiver and
\* the expect never panics, whatever start and the source have done meanwhile.
C30_ListenerSendNeverFails ==
    /\ sig # "panic"
    /\ sig = "grace" => "sig" \in subs

\* the listener has sent after start had broadcast and the source had returned
\* during the grace delay
C30_Witness ==
    /\ sig = "done"
    /\ bsent = <<"orch", "sig">>
    /\ pc = "done"
    /\ senders = {}
    /\ subs = {}

=============================================================================
